---------------------------- MODULE Spec2Model ----------------------------
(***************************************************************************)
(* Model of src/marketcapmanual.py: a Streamlit script that parses pasted  *)
(* "date<TAB>shares in millions" text (clean_data), resamples it to a      *)
(* daily series by linear interpolation, left-merges it onto a fetched     *)
(* price series and multiplies price by shares.                            *)
(*                                                                         *)
(* Dates are day numbers.  Numbers are exact rationals [n, d] (pandas      *)
(* computes in binary floating point; rounding is not modelled).  A text   *)
(* is a sequence of lines, a line a sequence of tab-separated fields, a    *)
(* field a token: a YYYY-MM-DD date, a numeric literal, or other text.     *)
(*                                                                         *)
(* Input domain: the first field of a line is a date or non-numeric text,  *)
(* and the first non-blank line has at most two fields (read_csv turns the *)
(* leading field of a wider first line into the row index, and             *)
(* to_datetime reads bare numbers as epoch offsets; neither is modelled).  *)
(***************************************************************************)
EXTENDS Integers, Sequences, FiniteSets, TLC

\* ------------------------------------------------------------- bounds
MaxLines == 3
MaxAppLines == 2
MaxDay == 3
FirstQuote == 5

\* ------------------------------------------------- program constants
Scale == 1000000

Days == 0 .. MaxDay
\* date.today(): one day after the last day a share sample can carry.
Today == MaxDay + 1
NaT == -1

\* ---------------------------------------------------------- rationals
RECURSIVE GCD(_, _)
GCD(a, b) == IF b = 0 THEN a ELSE GCD(b, a % b)

Abs(x) == IF x < 0 THEN -x ELSE x

Rat(n, d) ==
    LET g == GCD(Abs(n), Abs(d))
        s == IF d < 0 THEN -1 ELSE 1
    IN  [n |-> s * (n \div g), d |-> s * (d \div g)]

RAdd(p, q) == Rat(p.n * q.d + q.n * p.d, p.d * q.d)
RSub(p, q) == Rat(p.n * q.d - q.n * p.d, p.d * q.d)
RMul(p, q) == Rat(p.n * q.n, p.d * q.d)
RDiv(p, q) == Rat(p.n * q.d, p.d * q.n)
RInt(k) == [n |-> k, d |-> 1]

\* -------------------------------------------------------------- tokens
DateTok(day) == [t |-> "date", n |-> day, d |-> 1]
NumTok(q) == [t |-> "num", n |-> q.n, d |-> q.d]
TextTok == [t |-> "txt", n |-> 0, d |-> 1]
Missing == [t |-> "na", n |-> 0, d |-> 1]

\* Share counts typed by the user, in millions: 0.0001 and 0.0002.
ShareInputs == {Rat(1, 10000), Rat(2, 10000)}

FirstFields == {DateTok(day) : day \in Days} \cup {TextTok}
SecondFields == {NumTok(q) : q \in ShareInputs} \cup {TextTok}
WideLine == <<DateTok(0), NumTok(Rat(1, 10000)), TextTok>>

LineTypes ==
    {<<>>} \cup {<<f>> : f \in FirstFields}
           \cup {<<f, g>> : f \in FirstFields, g \in SecondFields}
           \cup {WideLine}

\* ---------------------------------------------------------- cells
\* A cell of the share column: a number, NaN, or (object dtype) a string,
\* the text of a field repeated k times.
NumCell(q) == [t |-> "num", n |-> q.n, d |-> q.d, k |-> 0]
NaN == [t |-> "nan", n |-> 0, d |-> 1, k |-> 0]
StrCell(tok, k) == [t |-> "str", n |-> tok.n, d |-> tok.d, k |-> k]
Val(c) == [n |-> c.n, d |-> c.d]
IsNum(c) == c.t = "num"

Row(day, c) == [Fecha |-> day, Acc |-> c]

\* ------------------------------------------------------ sequence helpers
RECURSIVE SelectSeqIdx(_, _, _)
SelectSeqIdx(s, keep, i) ==
    IF i > Len(s) THEN <<>>
    ELSE (IF i \in keep THEN <<s[i]>> ELSE <<>>) \o SelectSeqIdx(s, keep, i + 1)

Min(S) == CHOOSE x \in S : \A y \in S : x <= y
Max(S) == CHOOSE x \in S : \A y \in S : x >= y


\* ------------------------------------------------------------ clean_data
\* data_str.strip(): leading and trailing whitespace-only lines go.
RECURSIVE LStrip(_)
LStrip(s) == IF s # <<>> /\ Head(s) = <<>> THEN LStrip(Tail(s)) ELSE s

RECURSIVE RStrip(_)
RStrip(s) ==
    IF s # <<>> /\ s[Len(s)] = <<>> THEN RStrip(SubSeq(s, 1, Len(s) - 1)) ELSE s

Strip(s) == RStrip(LStrip(s))

IsLine(l) == l # <<>>
\* read_csv skips the blank lines that are left (skip_blank_lines).
DataLines(s) == SelectSeq(s, IsLine)

\* The parser expects max(fields of the first line, number of names) fields.
Width(ls) == IF Len(ls[1]) > 2 THEN Len(ls[1]) ELSE 2

\* A later line with more fields than expected is a ParserError; no data
\* at all is an EmptyDataError.
ParseFails(ls) ==
    \/ ls = <<>>
    \/ \E i \in 2 .. Len(ls) : Len(ls[i]) > Width(ls)

\* Short lines are padded with missing values; the last two columns are
\* Fecha and AccionesEnCirculacion.
FieldAt(l, i) == IF i >= 1 /\ i <= Len(l) THEN l[i] ELSE Missing

\* The share column is numeric when every field present in it is a number,
\* otherwise it has object dtype and its fields stay strings.
ObjectColumn(ls) ==
    \E i \in 1 .. Len(ls) : FieldAt(ls[i], Width(ls)).t \notin {"num", "na"}

ReadCell(tok, obj) ==
    IF tok.t = "na" THEN NaN
    ELSE IF obj THEN StrCell(tok, 1)
    ELSE NumCell([n |-> tok.n, d |-> tok.d])

\* pd.to_datetime(..., errors='coerce')
ToDatetime(tok) == IF tok.t = "date" THEN tok.n ELSE NaT

\* Mutant: the scaling is left out.
TimesOne(c) == c

\* df['AccionesEnCirculacion'] * 1_000_000: numbers are multiplied, NaN
\* stays NaN, a string is repeated.
TimesMillion(c) ==
    IF c.t = "num" THEN NumCell(RMul(Val(c), RInt(Scale)))
    ELSE IF c.t = "str" THEN [c EXCEPT !.k = c.k * Scale]
    ELSE c

EmptyFrame == [cols |-> FALSE, obj |-> FALSE, rows |-> <<>>]

\* Mutant: rows without a date are kept.
DropnaKeepsAll(rows) == rows

\* df.dropna(subset=['Fecha']): the rows whose date parsed.
Dropna(rows) == SelectSeqIdx(rows, {i \in 1 .. Len(rows) : rows[i].Fecha # NaT}, 1)

ReadCsv(ls) ==
    [i \in 1 .. Len(ls) |->
        Row(ToDatetime(FieldAt(ls[i], Width(ls) - 1)),
            ReadCell(FieldAt(ls[i], Width(ls)), ObjectColumn(ls)))]

Scaled(rows) == [i \in 1 .. Len(rows) |-> Row(rows[i].Fecha, TimesMillion(rows[i].Acc))]

clean_data(data_str) ==
    LET ls == DataLines(Strip(data_str))
    IN  IF ParseFails(ls) THEN EmptyFrame
        ELSE [cols |-> TRUE, obj |-> ObjectColumn(ls),
              rows |-> Scaled(Dropna(ReadCsv(ls)))]

\* st.error(...) is shown exactly when the parse raised.
ParseRaised(data_str) == ParseFails(DataLines(Strip(data_str)))

\* df_shares.empty
Empty(df) == ~df.cols \/ df.rows = <<>>

\* ------------------------------------------- resample / interpolate / ffill
Dates(rows) == {rows[i].Fecha : i \in 1 .. Len(rows)}

DuplicateDates(rows) ==
    \E i, j \in 1 .. Len(rows) : i # j /\ rows[i].Fecha = rows[j].Fecha

CellAt(rows, day) ==
    IF day \in Dates(rows)
    THEN rows[CHOOSE i \in 1 .. Len(rows) : rows[i].Fecha = day].Acc
    ELSE NaN

\* Mutant: the last day of the range gets no slot.
AsfreqOpenEnd(rows) ==
    LET lo == Min({rows[i].Fecha : i \in 1 .. Len(rows)})
        hi == Max({rows[i].Fecha : i \in 1 .. Len(rows)})
    IN  [i \in 1 .. (hi - lo) |->
            [Fecha |-> lo + i - 1,
             Acc |-> IF \E j \in 1 .. Len(rows) : rows[j].Fecha = lo + i - 1
                     THEN rows[CHOOSE j \in 1 .. Len(rows) : rows[j].Fecha = lo + i - 1].Acc
                     ELSE NaN]]

\* resample('D') then asfreq: one slot per calendar day from the first to
\* the last date, known dates carrying their value, the others NaN.
Asfreq(rows) ==
    LET lo == Min(Dates(rows))
        hi == Max(Dates(rows))
    IN  [i \in 1 .. (hi - lo + 1) |-> Row(lo + i - 1, CellAt(rows, lo + i - 1))]

Known(s) == {i \in 1 .. Len(s) : IsNum(s[i].Acc)}

\* Mutant: a gap is filled with the value before it (method='pad').
LinearAtPad(s, i) ==
    LET before == {j \in 1 .. Len(s) : s[j].Acc.t = "num" /\ j < i}
    IN  IF s[i].Acc.t = "num" \/ before = {} THEN s[i].Acc
        ELSE s[Max(before)].Acc

\* interpolate(method='linear'): slots are taken as equally spaced; a NaN
\* between two known slots lies on the line through them, a NaN after the
\* last known slot takes its value, a NaN before the first stays NaN.
LinearAt(s, i) ==
    LET before == {j \in Known(s) : j < i}
        after == {j \in Known(s) : j > i}
    IN  IF i \in Known(s) \/ before = {} THEN s[i].Acc
        ELSE IF after = {} THEN s[Max(before)].Acc
        ELSE LET a == Max(before)
                 b == Min(after)
                 va == Val(s[a].Acc)
                 vb == Val(s[b].Acc)
             IN  NumCell(RAdd(va, RDiv(RMul(RSub(vb, va), RInt(i - a)), RInt(b - a))))

Interpolate(s) == [i \in 1 .. Len(s) |-> Row(s[i].Fecha, LinearAt(s, i))]

\* ffill(): a NaN takes the last value before it, if there is one.
FfillAt(s, i) ==
    LET before == {j \in Known(s) : j < i}
    IN  IF i \in Known(s) \/ before = {} THEN s[i].Acc ELSE s[Max(before)].Acc

Ffill(s) == [i \in 1 .. Len(s) |-> Row(s[i].Fecha, FfillAt(s, i))]

\* Reindexing an index with duplicate labels raises ValueError, and
\* interpolating an object column raises TypeError.
ResampleRaises(df) == DuplicateDates(df.rows) \/ df.obj

Daily(df) == Ffill(Interpolate(Asfreq(df.rows)))

\* ------------------------------------------------------ price fetch, merge
\* The close of day d; yfinance returns one row per trading day in
\* [start, end), in ascending date order.
Quote(day) == RInt(FirstQuote + day)

RECURSIVE Ascending(_)
Ascending(S) ==
    IF S = {} THEN <<>> ELSE <<Min(S)>> \o Ascending(S \ {Min(S)})

Download(trading) ==
    LET ds == Ascending(trading)
    IN  [i \in 1 .. Len(ds) |-> [Fecha |-> ds[i], Precio |-> Quote(ds[i])]]

\* Mutant: an inner join, which keeps only the dates of both series.
InnerMerge(stock, diario) ==
    LET both == {i \in 1 .. Len(stock) :
                    \E j \in 1 .. Len(diario) : diario[j].Fecha = stock[i].Fecha}
        kept == SelectSeqIdx(stock, both, 1)
    IN  [i \in 1 .. Len(kept) |->
            [Fecha |-> kept[i].Fecha, Precio |-> kept[i].Precio,
             Acc |-> diario[CHOOSE j \in 1 .. Len(diario) :
                                diario[j].Fecha = kept[i].Fecha].Acc]]

\* pd.merge(stock_data[['Precio']], df_shares_diario, how='left') on the
\* index: every price row is kept, with the share value of its date or NaN.
LeftMerge(stock, diario) ==
    [i \in 1 .. Len(stock) |->
        [Fecha |-> stock[i].Fecha, Precio |-> stock[i].Precio,
         Acc |-> CellAt(diario, stock[i].Fecha)]]

\* df_merged['AccionesEnCirculacion'].fillna(method='ffill', inplace=True),
\* as pandas without copy-on-write applies it: the column of df_merged is
\* filled, each NaN from the last value in an earlier row of df_merged.
FillMerged(m) == [i \in 1 .. Len(m) |-> [m[i] EXCEPT !.Acc = FfillAt(m, i)]]

Times(price, c) == IF IsNum(c) THEN NumCell(RMul(price, Val(c))) ELSE NaN

\* df_merged['CapitalizacionDeMercado'] = Precio * AccionesEnCirculacion
WithCap(m) ==
    [i \in 1 .. Len(m) |->
        [Fecha |-> m[i].Fecha, Precio |-> m[i].Precio, Acc |-> m[i].Acc,
         Cap |-> Times(m[i].Precio, m[i].Acc)]]

Merged(stock, diario) == WithCap(FillMerged(LeftMerge(stock, diario)))

\* --------------------------------------------------------- serialisation
\* One "date<TAB>value" line per day of a daily series; NaN is written as
\* an empty field.
SerialLine(r) ==
    IF IsNum(r.Acc) THEN <<DateTok(r.Fecha), NumTok(Val(r.Acc))>>
    ELSE <<DateTok(r.Fecha)>>

Serialize(diario) == [i \in 1 .. Len(diario) |-> SerialLine(diario[i])]

\* ------------------------------------------------------------------ state
\* input_data        the text of the text area
\* df_shares         the frame clean_data returned
\* shown_error       st.error was called
\* df_shares_diario  the daily series (<<>> before it is built)
\* start_date, end_date, button   the widgets' values
\* stock_data        the fetched price rows
\* df_merged         the merged rows with their market cap
\* pc                where the script run is; "crashed" is an unhandled exception
\* steps             the steps this run has executed
\* run, first, original   the run number, and the first run's series and text
VARIABLES input_data, df_shares, shown_error, df_shares_diario, start_date,
          end_date, button, stock_data, df_merged, pc, steps, run, first,
          original

vars == <<input_data, df_shares, shown_error, df_shares_diario, start_date,
          end_date, button, stock_data, df_merged, pc, steps, run, first,
          original>>

\* The first line that holds data has at most two fields.
InDomain(t) == LET ls == DataLines(t) IN IF ls = <<>> THEN TRUE ELSE Len(ls[1]) <= 2

Fresh(text) ==
    /\ input_data = text
    /\ df_shares = EmptyFrame
    /\ shown_error = FALSE
    /\ df_shares_diario = <<>>
    /\ start_date = NaT
    /\ end_date = NaT
    /\ button = FALSE
    /\ stock_data = <<>>
    /\ df_merged = <<>>
    /\ pc = "start"
    /\ steps = {}
    /\ run = 1
    /\ first = <<>>
    /\ original = <<>>

Init ==
    \E k \in 0 .. MaxAppLines :
        \E text \in [1 .. k -> LineTypes] : InDomain(text) /\ Fresh(text)

InitBuilder ==
    \E k \in 0 .. MaxLines :
        \E text \in [1 .. k -> LineTypes] : InDomain(text) /\ Fresh(text)

\* ---------------------------------------------------------------- actions
\* df_shares = clean_data(input_data)
CleanData ==
    /\ pc = "start"
    /\ df_shares' = clean_data(input_data)
    /\ shown_error' = ParseRaised(input_data)
    /\ steps' = steps \cup {"clean"}
    /\ pc' = "cleaned"
    /\ UNCHANGED <<input_data, df_shares_diario, start_date, end_date, button,
                   stock_data, df_merged, run, first, original>>

\* Mutant: the emptiness test is left out.
ProceedsAlways(df) == TRUE

\* if not df_shares.empty:
Proceeds(df) == ~Empty(df)

\* The script ends after clean_data when the frame is empty.
Stop ==
    /\ pc = "cleaned"
    /\ ~Proceeds(df_shares)
    /\ pc' = "done"
    /\ UNCHANGED <<input_data, df_shares, shown_error, df_shares_diario,
                   start_date, end_date, button, stock_data, df_merged, steps,
                   run, first, original>>

\* set_index, resample('D').interpolate(method='linear'), ffill.  An
\* exception here is outside clean_data's try and ends the run.  (An empty
\* frame never gets here; set_index has no 'Fecha' to index it by.)
BuildDaily ==
    /\ pc = "cleaned"
    /\ Proceeds(df_shares)
    /\ steps' = steps \cup {"resample"}
    /\ IF ~df_shares.cols \/ df_shares.rows = <<>> \/ ResampleRaises(df_shares)
       THEN pc' = "crashed" /\ UNCHANGED df_shares_diario
       ELSE pc' = "resampled" /\ df_shares_diario' = Daily(df_shares)
    /\ UNCHANGED <<input_data, df_shares, shown_error, start_date, end_date,
                   button, stock_data, df_merged, run, first, original>>

\* The two date pickers: any dates from min_date to today + 1.
PickDates ==
    /\ pc = "resampled"
    /\ LET min_date == df_shares_diario[1].Fecha
           hoy_mas_uno == Today + 1
       IN  \E s, e \in min_date .. hoy_mas_uno :
               /\ start_date' = s
               /\ end_date' = e
    /\ steps' = steps \cup {"pick"}
    /\ pc' = "picked"
    /\ UNCHANGED <<input_data, df_shares, shown_error, df_shares_diario, button,
                   stock_data, df_merged, run, first, original>>

\* if st.button(...): download, merge, market cap, chart
Graficar ==
    /\ pc = "picked"
    /\ \E pressed \in BOOLEAN :
        /\ button' = pressed
        /\ IF pressed
           THEN \E trading \in SUBSET {d \in start_date .. (end_date - 1) : d <= Today} :
                   /\ stock_data' = Download(trading)
                   /\ df_merged' = Merged(Download(trading), df_shares_diario)
                   /\ steps' = steps \cup {"fetch", "merge", "cap", "chart"}
           ELSE UNCHANGED <<stock_data, df_merged, steps>>
    /\ pc' = "done"
    /\ UNCHANGED <<input_data, df_shares, shown_error, df_shares_diario,
                   start_date, end_date, run, first, original>>

\* The user pastes the serialised daily series back into the text area:
\* the script runs again from the top on that text.
Resubmit ==
    /\ pc = "resampled"
    /\ run = 1
    /\ input_data' = Serialize(df_shares_diario)
    /\ first' = df_shares_diario
    /\ original' = input_data
    /\ run' = 2
    /\ df_shares' = EmptyFrame
    /\ shown_error' = FALSE
    /\ df_shares_diario' = <<>>
    /\ steps' = {}
    /\ pc' = "start"
    /\ UNCHANGED <<start_date, end_date, button, stock_data, df_merged>>

Next == CleanData \/ Stop \/ BuildDaily \/ PickDates \/ Graficar

NextBuilder == CleanData \/ Stop \/ BuildDaily \/ Resubmit

Spec == Init /\ [][Next]_vars

SpecBuilder == InitBuilder /\ [][NextBuilder]_vars

\* ------------------------------------------------------------ properties
Dated(l) == Len(l) >= 1 /\ l[1].t = "date"
Pair(l) == Len(l) = 2 /\ l[1].t = "date" /\ l[2].t = "num"

\* A non-empty text of "date<TAB>number" lines with pairwise distinct dates.
ValidInput(t) ==
    /\ Len(t) >= 1
    /\ \A i \in 1 .. Len(t) : Pair(t[i])
    /\ \A i, j \in 1 .. Len(t) : i # j => t[i][1].n # t[j][1].n

InputDates(t) == {t[i][1].n : i \in 1 .. Len(t)}

\* No field of the text is a date.
NoDate(t) == \A i \in 1 .. Len(t) : \A j \in 1 .. Len(t[i]) : t[i][j].t # "date"

Built == pc = "resampled"

\* Two samples of df_shares with known values and no known sample between.
Adjacent(rows, i, j) ==
    /\ IsNum(rows[i].Acc)
    /\ IsNum(rows[j].Acc)
    /\ rows[i].Fecha < rows[j].Fecha
    /\ ~\E k \in 1 .. Len(rows) :
            /\ IsNum(rows[k].Acc)
            /\ rows[i].Fecha < rows[k].Fecha
            /\ rows[k].Fecha < rows[j].Fecha

OnLine(c, r1, r2, day) ==
    /\ IsNum(c)
    /\ RMul(RSub(Val(c), Val(r1.Acc)), RInt(r2.Fecha - r1.Fecha))
         = RMul(RSub(Val(r2.Acc), Val(r1.Acc)), RInt(day - r1.Fecha))

\* C1: between two adjacent known samples (D1, V1), (D2, V2) the daily
\* series has at every day D of D1..D2 the value on the line through them:
\* (value(D) - V1) * (D2 - D1) = (V2 - V1) * (D - D1).
C1_LinearBetweenSamples ==
    Built =>
        \A i, j \in 1 .. Len(df_shares.rows) :
            Adjacent(df_shares.rows, i, j) =>
                \A day \in df_shares.rows[i].Fecha .. df_shares.rows[j].Fecha :
                    \E k \in 1 .. Len(df_shares_diario) :
                        /\ df_shares_diario[k].Fecha = day
                        /\ OnLine(df_shares_diario[k].Acc, df_shares.rows[i],
                                  df_shares.rows[j], day)

\* A series built from samples three days apart with different values, given
\* latest first: the days between carry thirds.
C1_Witness ==
    /\ Built
    /\ run = 1
    /\ \E i, j \in 1 .. Len(df_shares.rows) :
        /\ j < i
        /\ Adjacent(df_shares.rows, i, j)
        /\ df_shares.rows[j].Fecha = df_shares.rows[i].Fecha + 3
        /\ df_shares.rows[i].Acc # df_shares.rows[j].Acc
    /\ \E k \in 1 .. Len(df_shares_diario) :
        IsNum(df_shares_diario[k].Acc) /\ df_shares_diario[k].Acc.d = 3

\* C2: for a non-empty valid input, in any line order, the daily series
\* exists and has exactly one entry for every day from the least to the
\* greatest input date, ascending, each with a defined value.
C2_DailyCoversRange ==
    (ValidInput(input_data) /\ pc \notin {"start", "cleaned"}) =>
        /\ Built
        /\ Len(df_shares_diario)
             = Max(InputDates(input_data)) - Min(InputDates(input_data)) + 1
        /\ \A k \in 1 .. Len(df_shares_diario) :
            /\ df_shares_diario[k].Fecha = Min(InputDates(input_data)) + k - 1
            /\ IsNum(df_shares_diario[k].Acc)

\* Three valid lines out of chronological order, with a gap between dates.
C2_Witness ==
    /\ Built
    /\ ValidInput(input_data)
    /\ Len(input_data) = 3
    /\ input_data[1][1].n > input_data[3][1].n
    /\ input_data[3][1].n > input_data[2][1].n
    /\ Len(df_shares_diario) > Len(input_data)

\* The samples the claim expects of a text: one per dated line, in order,
\* with the value times 1,000,000.
ExpectedSamples(t) ==
    LET dl == SelectSeq(t, Dated)
    IN  [i \in 1 .. Len(dl) |->
            Row(dl[i][1].n,
                NumCell(RMul([n |-> dl[i][2].n, d |-> dl[i][2].d], RInt(Scale))))]

\* C4 (as claimed): when every dated line is a (date, n) pair, clean_data
\* returns exactly the samples (date, n * 1,000,000) of the dated lines,
\* whatever the other lines hold, and raises no error.
C4_ExactlyDatedSamples ==
    ( /\ pc = "cleaned"
      /\ run = 1
      /\ \E i \in 1 .. Len(input_data) : Dated(input_data[i])
      /\ \A i \in 1 .. Len(input_data) : Dated(input_data[i]) => Pair(input_data[i]) )
    => /\ ~shown_error
       /\ df_shares.rows = ExpectedSamples(input_data)

Later == {"resample", "pick", "fetch", "merge", "cap", "chart"}

\* C6: after an empty clean_data result no later step occurs, and the price
\* fetch, merge and chart occur only with a daily series and the button
\* pressed.
C6_EmptyStopsTheRun ==
    /\ Empty(df_shares) => steps \cap Later = {}
    /\ (steps \cap {"fetch", "merge", "cap", "chart"} # {}) =>
            /\ ~Empty(df_shares)
            /\ df_shares_diario # <<>>
            /\ button
            /\ {"resample", "pick"} \subseteq steps

\* A run that ended right after clean_data reported a parse error.
C6_Witness ==
    /\ pc = "done"
    /\ Empty(df_shares)
    /\ shown_error
    /\ input_data # <<>>
    /\ steps = {"clean"}

\* C7 (as claimed): building the daily series never ends in an unhandled
\* fault.
C7_BuilderNeverFaults == pc # "crashed"

TimesMillionOf(diario) ==
    [k \in 1 .. Len(diario) |->
        Row(diario[k].Fecha, NumCell(RMul(Val(diario[k].Acc), RInt(Scale))))]

\* C8 (as claimed): the builder run on its own serialised output gives a
\* daily series identical to the first.
C8_RebuildIsIdentical ==
    (run = 2 /\ Built /\ ValidInput(original)) => df_shares_diario = first

\* C8 (amended): the builder run on its own serialised output gives a daily
\* series with the same dates whose values are 1,000,000 times the first's.
C8_RebuildScalesAgain ==
    (run = 2 /\ pc \notin {"start", "cleaned"} /\ ValidInput(original)) =>
        /\ Built
        /\ df_shares_diario = TimesMillionOf(first)

\* A rebuilt series whose first run interpolated between different values.
C8_Witness ==
    /\ run = 2
    /\ Built
    /\ ValidInput(original)
    /\ Len(first) > Len(original)
    /\ \E k \in 1 .. Len(first) : first[k].Acc.d = 3

Lo == df_shares_diario[1].Fecha
Hi == df_shares_diario[Len(df_shares_diario)].Fecha
Plotted == pc = "done" /\ button

\* C3 (as claimed): for a valid input, every merged row dated after the last
\* known share date uses the share count of the last known share date.
C3_FutureRowsUseLastValue ==
    (Plotted /\ ValidInput(input_data)) =>
        \A i \in 1 .. Len(df_merged) :
            df_merged[i].Fecha > Hi =>
                df_merged[i].Acc = df_shares_diario[Len(df_shares_diario)].Acc

\* C9: the merged output has one row per price row, on the same dates, and
\* within the share series' range the market cap is the price times the
\* daily share value of that date.
C9_OneRowPerPriceDate ==
    Plotted =>
        /\ Len(df_merged) = Len(stock_data)
        /\ \A i \in 1 .. Len(df_merged) :
            /\ df_merged[i].Fecha = stock_data[i].Fecha
            /\ (Lo <= df_merged[i].Fecha /\ df_merged[i].Fecha <= Hi) =>
                LET c == df_shares_diario[df_merged[i].Fecha - Lo + 1].Acc
                IN  df_merged[i].Cap =
                        IF IsNum(c) THEN NumCell(RMul(stock_data[i].Precio, Val(c)))
                        ELSE NaN

\* A merge with a priced day inside the share range and one after it.
C9_Witness ==
    /\ Plotted
    /\ \E i, j \in 1 .. Len(df_merged) :
        /\ df_merged[i].Fecha <= Hi
        /\ IsNum(df_merged[i].Cap)
        /\ df_merged[i].Cap.d = 3
        /\ df_merged[j].Fecha > Hi

\* C10 (as claimed): for a valid input, when no price date lies in the share
\* series' range the merge gives an empty result, so no row with an
\* undefined market cap.
C10_NoOverlapGivesEmpty ==
    ( /\ Plotted
      /\ ValidInput(input_data)
      /\ \A i \in 1 .. Len(stock_data) :
            stock_data[i].Fecha < Lo \/ stock_data[i].Fecha > Hi )
    => df_merged = <<>>

==========================================================================
